---- MODULE Spec2Model ----
(***************************************************************************)
(* Model of src/main.py: the EmexVINParser class (VIN decoding, part       *)
(* search, part details, HTML extraction) and the Flask endpoints that     *)
(* share one process-wide parser.                                          *)
(***************************************************************************)
EXTENDS Integers, Sequences, FiniteSets, TLC

VARIABLES
    \* HTML extraction engine, run on its own (specification SpecExtract)
    soup,        \* the parsed page handed to the extraction methods
    parts,       \* value returned by _parse_parts_from_html
    details,     \* value returned by _parse_part_details
    partsDone,   \* _parse_parts_from_html has returned
    detailsDone, \* _parse_part_details has returned
    \* the decode response loop, run on its own (specification SpecVehicle)
    results,      \* data.get('Results', []) of a 200 decode response
    vehicle_info, \* the dict built from it
    vehicleDone,  \* the loop has run
    \* the Flask process (specifications Spec and SpecSeq)
    environ,     \* os.environ: EMEX_USERNAME, EMEX_PASSWORD
    objs,        \* every EmexVINParser constructed so far, by identity
    parser,      \* the module-level global `parser` (an identity in objs)
    pc,          \* per request thread: where its handler stands
    endpoint,    \* per request thread: the view function it runs
    self,        \* per request thread: the parser its method call is bound to
    created,     \* per request thread: the parser authenticate() constructed
    vin_code,    \* per request thread: argument of decode_vin / search_parts_by_vin
    article,     \* per request thread: argument of get_part_details
    data,        \* per request thread: request.get_json() of authenticate()
    vin_info,    \* per request thread: local vin_info of search_parts_by_vin
    outbound,    \* per request thread: outbound HTTP calls and their completions
    response,    \* per request thread: (status, JSON body) returned to the client
    last_login   \* outcome of the login POST of the latest credential change

extractVars == <<soup, parts, details, partsDone, detailsDone>>
vehicleVars == <<results, vehicle_info, vehicleDone>>
serverVars == <<environ, objs, parser, pc, endpoint, self, created, vin_code,
                article, data, vin_info, outbound, response, last_login>>
pureVars == <<extractVars, vehicleVars>>
vars == <<extractVars, vehicleVars, serverVars>>

(***************************************************************************)
(* Bounds of the model.                                                    *)
(***************************************************************************)
MaxNodes == 3
MaxResults == 3
MaxParsers == 2

(***************************************************************************)
(* HTML: a page is the sequence, in document order, of its elements that   *)
(* find_all may select; each carries the descendants that find may select. *)
(* Text is a sequence of characters.                                       *)
(***************************************************************************)
Whitespace == {" ", "\t", "\n"}

RECURSIVE lstrip(_)
lstrip(s) ==
    IF s = <<>> THEN <<>>
    ELSE IF Head(s) \in Whitespace THEN lstrip(Tail(s)) ELSE s

RECURSIVE rstrip(_)
rstrip(s) ==
    IF s = <<>> THEN <<>>
    ELSE IF s[Len(s)] \in Whitespace THEN rstrip(SubSeq(s, 1, Len(s) - 1)) ELSE s

\* Tag.get_text(strip=True) of an element holding one text string
get_text(el) == rstrip(lstrip(el.text))

\* a descendant element of a candidate node
Elem(name, cls, title, text) ==
    [name |-> name, class |-> cls, dtype |-> "", title |-> title, text |-> text]

\* a candidate node; malformed: traversing it raises an exception
Node(name, cls, dtype, children, malformed) ==
    [name |-> name, class |-> cls, dtype |-> dtype, title |-> "",
     children |-> children, malformed |-> malformed]

\* data-title values of the source ('Артикул', 'Цена', 'Наличие', 'Срок')
TitleArticle == "Artikul"
TitlePrice == "Cena"
TitleAvailability == "Nalichie"
TitleDelivery == "Srok"

eArticle == Elem("span", {"article"}, "", <<"A", "1">>)
eArticleEmpty == Elem("span", {"article"}, "", <<>>)
eArticleTd == Elem("td", {}, TitleArticle, <<"B", "2">>)
ePrice == Elem("span", {"price", "bold"}, "", <<"5">>)
ePriceTd == Elem("td", {}, TitlePrice, <<" ", "1", "0", " ">>)
ePriceBlank == Elem("span", {"price"}, "", <<" ", "\n">>)
ePartName == Elem("span", {"part-name"}, "", <<"N">>)
eBrand == Elem("span", {"brand"}, "", <<"T">>)
eAvailability == Elem("span", {"availability"}, "", <<"y">>)
eWarehouse == Elem("span", {"warehouse"}, "", <<"W", " ">>)
eDelivery == Elem("td", {"delivery"}, TitleDelivery, <<"2", "d">>)
eOther == Elem("span", {"other"}, "", <<"z">>)

Nodes == {
    Node("div", {"part-item"}, "", <<eArticle, ePrice, eBrand>>, FALSE),
    Node("div", {"part-item"}, "", <<eArticleEmpty>>, FALSE),
    Node("div", {"part-item"}, "", <<eOther>>, FALSE),
    Node("div", {"part-item"}, "", <<ePartName>>, TRUE),
    Node("div", {"part-item", "odd"}, "part", <<ePriceBlank, ePrice>>, FALSE),
    Node("tr", {"search-row"}, "", <<eArticleTd, ePriceTd, eDelivery>>, FALSE),
    Node("div", {}, "part", <<eArticle, eAvailability>>, FALSE),
    Node("tr", {"part-item"}, "", <<ePartName>>, FALSE),
    Node("div", {"offer-item"}, "", <<ePrice, eWarehouse>>, FALSE),
    Node("div", {"offer-item"}, "", <<ePriceBlank, eOther>>, FALSE),
    Node("div", {"offer-item"}, "", <<eAvailability>>, TRUE),
    Node("tr", {"offer-row"}, "", <<eDelivery, ePrice>>, FALSE),
    Node("span", {"other"}, "", <<eArticle, ePrice>>, FALSE)
}

RECURSIVE SeqsUpTo(_, _)
SeqsUpTo(S, n) ==
    IF n = 0 THEN {<<>>}
    ELSE LET shorter == SeqsUpTo(S, n - 1)
         IN  shorter \cup {Append(s, x) : s \in shorter, x \in S}

Pages == SeqsUpTo(Nodes, MaxNodes)

(***************************************************************************)
(* BeautifulSoup searches                                                  *)
(***************************************************************************)
\* does an element satisfy (name, class_, attribute)?  "" = not constrained
Matches(el, name, cls, attr, val) ==
    /\ name = "" \/ el.name = name
    /\ cls = "" \/ cls \in el.class
    /\ attr = "" \/ (attr = "data-type" /\ el.dtype = val)
                 \/ (attr = "data-title" /\ el.title = val)

\* soup.find_all(name, class_=cls) / soup.find_all(name, {attr: val})
find_all(page, name, cls, attr, val) ==
    SelectSeq(page, LAMBDA n : Matches(n, name, cls, attr, val))

\* element.find(...): the first matching descendant, or None (here <<>>)
find(element, name, cls, attr, val) ==
    LET hits == SelectSeq(element.children,
                          LAMBDA c : Matches(c, name, cls, attr, val))
    IN  IF hits = <<>> THEN <<>> ELSE <<Head(hits)>>

\* Python's `a or b` on find_all results (lists) and on find results
\* (a Tag is always truthy, None is falsy)
Or(a, b) == IF a # <<>> THEN a ELSE b

(***************************************************************************)
(* EmexVINParser._extract_part_info                                        *)
(***************************************************************************)
PartFields == {"article", "name", "price", "availability", "manufacturer",
               "delivery_time"}

\* Optional[Dict]: None, or a dict (a function on the keys that were set)
None == [isNone |-> TRUE, value |-> <<>>]
Some(v) == [isNone |-> FALSE, value |-> v]

\* the element each field is read from (<<>> when neither selector finds one)
part_field_elements(element) ==
    [article |-> Or(find(element, "", "article", "", ""),
                    find(element, "td", "", "data-title", TitleArticle)),
     name |-> Or(find(element, "", "name", "", ""),
                 find(element, "", "part-name", "", "")),
     price |-> Or(find(element, "", "price", "", ""),
                  find(element, "td", "", "data-title", TitlePrice)),
     availability |-> Or(find(element, "", "availability", "", ""),
                         find(element, "td", "", "data-title", TitleAvailability)),
     manufacturer |-> Or(find(element, "", "manufacturer", "", ""),
                         find(element, "", "brand", "", "")),
     delivery_time |-> Or(find(element, "", "delivery", "", ""),
                          find(element, "td", "", "data-title", TitleDelivery))]

\* `if article:` tests the Tag that was found (always truthy), not its text
extract_part_info(element) ==
    IF element.malformed
    THEN None   \* except Exception: return None
    ELSE LET found == part_field_elements(element)
             part_info == [f \in {g \in PartFields : found[g] # <<>>} |->
                              get_text(found[f][1])]
         IN  IF DOMAIN part_info # {} THEN Some(part_info) ELSE None

(***************************************************************************)
(* EmexVINParser._parse_parts_from_html                                    *)
(***************************************************************************)
\* faulty variant: the three strategies are all consulted and concatenated
part_items_MutAllStrategies(page) ==
    find_all(page, "div", "part-item", "", "")
        \o find_all(page, "tr", "search-row", "", "")
        \o find_all(page, "div", "", "data-type", "part")

part_items(page) ==
    Or(Or(find_all(page, "div", "part-item", "", ""),
          find_all(page, "tr", "search-row", "", "")),
       find_all(page, "div", "", "data-type", "part"))

RECURSIVE parts_loop(_, _)
parts_loop(items, acc) ==
    IF items = <<>> THEN acc
    ELSE LET part_data == extract_part_info(Head(items))
         IN  parts_loop(Tail(items),
                        IF ~part_data.isNone /\ DOMAIN part_data.value # {}
                        THEN Append(acc, part_data.value) ELSE acc)

parse_parts_from_html(page) == parts_loop(part_items(page), <<>>)

(***************************************************************************)
(* EmexVINParser._parse_part_details                                       *)
(***************************************************************************)
OfferFields == {"price", "availability", "warehouse", "delivery_time"}

\* an offer field: None, or the stripped text
Null == [null |-> TRUE, text |-> <<>>]
Str(t) == [null |-> FALSE, text |-> t]
Truthy(v) == ~v.null /\ v.text # <<>>

offer_field(offer, cls) ==
    LET el == find(offer, "", cls, "", "")
    IN  IF el # <<>> THEN Str(get_text(el[1])) ELSE Null

offer_items(page) ==
    Or(find_all(page, "div", "offer-item", "", ""),
       find_all(page, "tr", "offer-row", "", ""))

\* the for loop sits inside one try: an exception in a node ends the loop
RECURSIVE offers_loop(_, _)
offers_loop(items, acc) ==
    IF items = <<>> THEN acc
    ELSE IF Head(items).malformed THEN acc
    ELSE LET offer == Head(items)
             offer_data == [price |-> offer_field(offer, "price"),
                            availability |-> offer_field(offer, "availability"),
                            warehouse |-> offer_field(offer, "warehouse"),
                            delivery_time |-> offer_field(offer, "delivery")]
         IN  offers_loop(Tail(items),
                         IF \E f \in OfferFields : Truthy(offer_data[f])
                         THEN Append(acc, offer_data) ELSE acc)

parse_part_details(page, art) ==
    [article |-> art, offers |-> offers_loop(offer_items(page), <<>>)]

(***************************************************************************)
(* EmexVINParser.decode_vin: the loop over the decode response's Results   *)
(***************************************************************************)
\* a JSON string or null; item.get('Value') is None too when the key is absent
JNull == [null |-> TRUE, s |-> ""]
JStr(s) == [null |-> FALSE, s |-> s]

Variables == {"Make", "Model"}
Values == {JNull, JStr(""), JStr("Toyota"), JStr("Honda")}
ResultItems == [Variable : Variables, Value : Values]
ResultLists == SeqsUpTo(ResultItems, MaxResults)

\* `if item.get('Value'):` None and '' are falsy
\* faulty variant: `is not None` in place of truthiness
has_value_MutNotNone(item) == ~item.Value.null

has_value(item) == ~item.Value.null /\ item.Value.s # ""

\* vehicle_info[key] = value on a dict
dict_set(d, key, value) ==
    [k \in DOMAIN d \cup {key} |-> IF k = key THEN value ELSE d[k]]

\* d.get(key, default)
dict_get(d, key, default) == IF key \in DOMAIN d THEN d[key] ELSE default

RECURSIVE vehicle_info_loop(_, _)
vehicle_info_loop(items, acc) ==
    IF items = <<>> THEN acc
    ELSE LET item == Head(items)
         IN  vehicle_info_loop(Tail(items),
                               IF has_value(item)
                               THEN dict_set(acc, item.Variable, item.Value.s)
                               ELSE acc)

build_vehicle_info(items) == vehicle_info_loop(items, <<>>)

(***************************************************************************)
(* Values of the Flask process                                             *)
(***************************************************************************)
Requests == {"r1", "r2"}

Articles == {"A1"}

VinLength == 17

LowerCase == <<"a", "b", "c", "d", "e", "f", "g", "h", "i", "j", "k", "l", "m",
               "n", "o", "p", "q", "r", "s", "t", "u", "v", "w", "x", "y", "z">>
UpperCase == <<"A", "B", "C", "D", "E", "F", "G", "H", "I", "J", "K", "L", "M",
               "N", "O", "P", "Q", "R", "S", "T", "U", "V", "W", "X", "Y", "Z">>

\* str.upper(), character by character
upper_char(c) ==
    IF \E i \in 1..Len(LowerCase) : LowerCase[i] = c
    THEN UpperCase[CHOOSE i \in 1..Len(LowerCase) : LowerCase[i] = c]
    ELSE c

upper(str) == [i \in 1..Len(str) |-> upper_char(str[i])]

\* VINs a client may put in the path (and '' for a direct call of the method)
VinInputs == {
    <<>>,
    <<"S", "h", "o", "r", "t">>,
    <<"1", "h", "g", "c", "m", "8", "2", "6", "3", "3", "A", "0", "0", "4", "3", "5", "2">>,
    <<"1", "H", "G", "C", "M", "8", "2", "6", "3", "3", "A", "0", "0", "4", "3", "5", "2", "9">>
}

\* what the decode service may answer: a status with a JSON body, or the
\* call (or response.json()) raising
DecodeReplies == {
    [raised |-> FALSE, status |-> 200,
     Results |-> <<[Variable |-> "Make", Value |-> JStr("Toyota")],
                   [Variable |-> "Model", Value |-> JStr("")]>>],
    [raised |-> FALSE, status |-> 200, Results |-> <<>>],
    [raised |-> FALSE, status |-> 404, Results |-> <<>>],
    [raised |-> TRUE, status |-> 0, Results |-> <<>>]
}

\* what emex.ru may answer to a page GET
PageFixtures == {
    <<>>,
    <<Node("div", {"part-item"}, "", <<eArticle, ePrice, eBrand>>, FALSE),
      Node("div", {"part-item"}, "", <<eOther>>, FALSE)>>,
    <<Node("div", {"offer-item"}, "", <<ePrice, eWarehouse>>, FALSE)>>
}
PageReplies ==
    {[raised |-> FALSE, status |-> 200, page |-> pg] : pg \in PageFixtures}
        \cup {[raised |-> FALSE, status |-> 503, page |-> <<>>],
              [raised |-> TRUE, status |-> 0, page |-> <<>>]}

\* what emex.ru may answer to the login POST
LoginReplies == {[raised |-> FALSE, status |-> 200],
                 [raised |-> FALSE, status |-> 403],
                 [raised |-> TRUE, status |-> 0]}

\* request.get_json() of POST /api/authenticate: a JSON object whose keys may
\* be absent (None), or something that is not an object
Usernames == {JNull, JStr(""), JStr("u1")}
Passwords == {JNull, JStr("p")}
NoBody == [isObject |-> FALSE, username |-> JNull, password |-> JNull]
AuthBodies ==
    [isObject : {TRUE}, username : Usernames, password : Passwords] \cup {NoBody}

\* os.environ at import: the credentials unset, or both set
NoEnviron == [EMEX_USERNAME |-> JNull, EMEX_PASSWORD |-> JNull]
Environs == {NoEnviron, [EMEX_USERNAME |-> JStr("env"), EMEX_PASSWORD |-> JStr("envp")]}

\* truthiness of an Optional[str]
truthy(v) == ~v.null /\ v.s # ""
py_or(a, b) == IF truthy(a) THEN a ELSE b

NoDict == [unset |-> TRUE]
NoResponse == [status |-> 0, json |-> NoDict]
jsonify(d) == [status |-> 200, json |-> d]

\* an outbound HTTP call being issued or completing; via: 0 for the requests
\* module, else the identity of the parser whose session carries it
Issued(call, via) == [ev |-> "issued", call |-> call, via |-> via]
Completed(call, via) == [ev |-> "completed", call |-> call, via |-> via]

(***************************************************************************)
(* EmexVINParser                                                           *)
(***************************************************************************)
\* faulty variant: a parser holding credentials starts out authenticated
EmexVINParser_init_MutFlagFromCredentials(username, password) ==
    [username |-> py_or(username, environ.EMEX_USERNAME),
     password |-> py_or(password, environ.EMEX_PASSWORD),
     is_authenticated |-> /\ truthy(py_or(username, environ.EMEX_USERNAME))
                          /\ truthy(py_or(password, environ.EMEX_PASSWORD))]

\* __init__
EmexVINParser_init(username, password) ==
    [username |-> py_or(username, environ.EMEX_USERNAME),
     password |-> py_or(password, environ.EMEX_PASSWORD),
     is_authenticated |-> FALSE]

\* decode_vin up to its outbound call: `not vin_code or len(vin_code) != 17`
\* faulty variant: only VINs that are too long are rejected
vin_invalid_MutAtMost(vin) == Len(vin) > VinLength

vin_invalid(vin) == vin = <<>> \/ Len(vin) # VinLength

invalid_vin_result(vin) == [error |-> "invalid VIN format", vin |-> vin]

\* decode_vin from the reply of its outbound call on
decode_vin_reply(vin, reply) ==
    IF reply.raised THEN [error |-> "exception", vin |-> vin]
    ELSE IF reply.status = 200
    THEN [vin |-> vin, vehicle_info |-> build_vehicle_info(reply.Results),
          decoded |-> TRUE]
    ELSE [error |-> "decode failed", vin |-> vin]

\* search_parts_by_vin: `if 'error' in vin_info: return vin_info`
\* faulty variant: the decoder's error is not looked at
decode_failed_MutNever(info) == FALSE

decode_failed(info) == "error" \in DOMAIN info

\* search_parts_by_vin from the reply of the page GET on
search_parts_reply(vin, info, reply) ==
    IF reply.raised THEN [error |-> "exception", vin |-> vin]
    ELSE IF reply.status # 200
    THEN [error |-> "emex.ru error: " \o ToString(reply.status), vin |-> vin]
    ELSE LET found == parse_parts_from_html(reply.page)
         IN  [vin |-> vin, vehicle_info |-> dict_get(info, "vehicle_info", <<>>),
              parts |-> found,
              total_parts |-> Len(found), timestamp |-> "now"]

\* get_part_details from the reply of the page GET on
get_part_details_reply(art, reply) ==
    IF reply.raised THEN [error |-> "exception", article |-> art]
    ELSE IF reply.status # 200
    THEN [error |-> "request error: " \o ToString(reply.status), article |-> art]
    ELSE parse_part_details(reply.page, art)

\* authenticate(): does the login POST get issued?
has_credentials(p) == truthy(p.username) /\ truthy(p.password)

\* the authenticate view: `if not username or not password`
\* faulty variant: the password is not required
credentials_missing_MutUsernameOnly(body) == ~truthy(body.username)

credentials_missing(body) == ~truthy(body.username) \/ ~truthy(body.password)

\* one outbound call leaves the process: session.get / session.post /
\* requests.get is called once where it stands
\* faulty variant: the call is made a second time
issue_MutRetry(log, call, via) ==
    Append(Append(log, Issued(call, via)), Issued(call, via))

issue(log, call, via) == Append(log, Issued(call, via))

complete(log, call, via) == Append(log, Completed(call, via))

(***************************************************************************)
(* The Flask views, one thread per request.  A handler is cut where it     *)
(* waits for an outbound call, and authenticate() between its assignment   *)
(* of the global and its next read of it.                                  *)
(***************************************************************************)
Idle(r) == pc[r] = "idle"

\* GET /api/decode-vin/<vin>: parser.decode_vin(vin.upper()) up to the GET
StartDecodeVin(r, vin) ==
    /\ Idle(r)
    /\ endpoint' = [endpoint EXCEPT ![r] = "decode_vin"]
    /\ self' = [self EXCEPT ![r] = parser]
    /\ vin_code' = [vin_code EXCEPT ![r] = upper(vin)]
    /\ IF vin_invalid(upper(vin))
       THEN /\ response' = [response EXCEPT ![r] = jsonify(invalid_vin_result(upper(vin)))]
            /\ pc' = [pc EXCEPT ![r] = "done"]
            /\ UNCHANGED outbound
       ELSE /\ outbound' = [outbound EXCEPT ![r] = issue(@, "decode GET", 0)]
            /\ pc' = [pc EXCEPT ![r] = "decode_wait"]
            /\ UNCHANGED response
    /\ UNCHANGED <<pureVars, environ, objs, parser, created, article, data, vin_info,
                   last_login>>

\* GET /api/search-parts/<vin>: parser.search_parts_by_vin(vin.upper(), part_name)
\* up to the GET of decode_vin (part_name only shapes the URL of the page GET)
StartSearchParts(r, vin) ==
    /\ Idle(r)
    /\ endpoint' = [endpoint EXCEPT ![r] = "search_parts"]
    /\ self' = [self EXCEPT ![r] = parser]
    /\ vin_code' = [vin_code EXCEPT ![r] = upper(vin)]
    /\ IF vin_invalid(upper(vin))
       THEN /\ vin_info' = [vin_info EXCEPT ![r] = invalid_vin_result(upper(vin))]
            /\ IF decode_failed(invalid_vin_result(upper(vin)))
               THEN /\ response' = [response EXCEPT ![r] = jsonify(invalid_vin_result(upper(vin)))]
                    /\ pc' = [pc EXCEPT ![r] = "done"]
                    /\ UNCHANGED outbound
               ELSE /\ outbound' = [outbound EXCEPT ![r] = issue(@, "page GET", parser)]
                    /\ pc' = [pc EXCEPT ![r] = "page_wait"]
                    /\ UNCHANGED response
       ELSE /\ outbound' = [outbound EXCEPT ![r] = issue(@, "decode GET", 0)]
            /\ pc' = [pc EXCEPT ![r] = "decode_wait"]
            /\ UNCHANGED <<response, vin_info>>
    /\ UNCHANGED <<pureVars, environ, objs, parser, created, article, data,
                   last_login>>

\* the decode GET returns (or raises): the rest of decode_vin, then the rest of
\* the view, or of search_parts_by_vin up to its page GET
DecodeReply(r, reply) ==
    /\ pc[r] = "decode_wait"
    /\ LET info == decode_vin_reply(vin_code[r], reply)
           log == complete(outbound[r], "decode GET", 0)
       IN  IF endpoint[r] = "decode_vin"
           THEN /\ response' = [response EXCEPT ![r] = jsonify(info)]
                /\ outbound' = [outbound EXCEPT ![r] = log]
                /\ pc' = [pc EXCEPT ![r] = "done"]
                /\ UNCHANGED vin_info
           ELSE /\ vin_info' = [vin_info EXCEPT ![r] = info]
                /\ IF decode_failed(info)
                   THEN /\ response' = [response EXCEPT ![r] = jsonify(info)]
                        /\ outbound' = [outbound EXCEPT ![r] = log]
                        /\ pc' = [pc EXCEPT ![r] = "done"]
                   ELSE /\ outbound' = [outbound EXCEPT ![r] = issue(log, "page GET", self[r])]
                        /\ pc' = [pc EXCEPT ![r] = "page_wait"]
                        /\ UNCHANGED response
    /\ UNCHANGED <<pureVars, environ, objs, parser, endpoint, self, created, vin_code,
                   article, data, last_login>>

\* GET /api/part-details/<article>: parser.get_part_details(article) up to the GET
StartPartDetails(r, art) ==
    /\ Idle(r)
    /\ endpoint' = [endpoint EXCEPT ![r] = "part_details"]
    /\ self' = [self EXCEPT ![r] = parser]
    /\ article' = [article EXCEPT ![r] = art]
    /\ outbound' = [outbound EXCEPT ![r] = issue(@, "page GET", parser)]
    /\ pc' = [pc EXCEPT ![r] = "page_wait"]
    /\ UNCHANGED <<pureVars, environ, objs, parser, created, vin_code, data,
                   vin_info, response, last_login>>

\* the page GET returns (or raises): the rest of search_parts_by_vin or of
\* get_part_details, and of the view
PageReply(r, reply) ==
    /\ pc[r] = "page_wait"
    /\ outbound' = [outbound EXCEPT ![r] = complete(@, "page GET", self[r])]
    /\ response' = [response EXCEPT ![r] =
           IF endpoint[r] = "search_parts"
           THEN jsonify(search_parts_reply(vin_code[r], vin_info[r], reply))
           ELSE jsonify(get_part_details_reply(article[r], reply))]
    /\ pc' = [pc EXCEPT ![r] = "done"]
    /\ UNCHANGED <<pureVars, environ, objs, parser, endpoint, self, created, vin_code,
                   article, data, vin_info, last_login>>

\* POST /api/authenticate up to `parser = EmexVINParser(username, password)`
StartAuthenticate(r, body) ==
    /\ Idle(r)
    /\ body.isObject /\ ~credentials_missing(body) => Len(objs) <= MaxParsers
    /\ endpoint' = [endpoint EXCEPT ![r] = "authenticate"]
    /\ data' = [data EXCEPT ![r] = body]
    /\ IF ~body.isObject
       THEN \* data is None: data.get raises, the view answers 500
            /\ response' = [response EXCEPT ![r] =
                   [status |-> 500, json |-> [error |-> "exception"]]]
            /\ pc' = [pc EXCEPT ![r] = "done"]
            /\ UNCHANGED <<objs, parser, created>>
       ELSE IF credentials_missing(body)
       THEN /\ response' = [response EXCEPT ![r] =
                   [status |-> 400, json |-> [error |-> "username and password required"]]]
            /\ pc' = [pc EXCEPT ![r] = "done"]
            /\ UNCHANGED <<objs, parser, created>>
       ELSE /\ objs' = Append(objs, EmexVINParser_init(body.username, body.password))
            /\ parser' = Len(objs) + 1
            /\ created' = [created EXCEPT ![r] = Len(objs) + 1]
            /\ pc' = [pc EXCEPT ![r] = "swapped"]
            /\ UNCHANGED response
    /\ UNCHANGED <<pureVars, environ, self, vin_code, article, vin_info, outbound,
                   last_login>>

\* `success = parser.authenticate()`: the global is read again, and
\* EmexVINParser.authenticate runs up to its login POST
CallAuthenticate(r) ==
    /\ pc[r] = "swapped"
    /\ self' = [self EXCEPT ![r] = parser]
    /\ IF has_credentials(objs[parser])
       THEN /\ outbound' = [outbound EXCEPT ![r] = issue(@, "login POST", parser)]
            /\ pc' = [pc EXCEPT ![r] = "login_wait"]
            /\ UNCHANGED response
       ELSE /\ response' = [response EXCEPT ![r] =
                   jsonify([authenticated |-> FALSE, message |-> "authentication failed"])]
            /\ pc' = [pc EXCEPT ![r] = "done"]
            /\ UNCHANGED outbound
    /\ UNCHANGED <<pureVars, environ, objs, parser, endpoint, created, vin_code,
                   article, data, vin_info, last_login>>

\* the login POST returns (or raises): the rest of EmexVINParser.authenticate
\* and of the view
LoginReply(r, reply) ==
    /\ pc[r] = "login_wait"
    /\ LET success == ~reply.raised /\ reply.status = 200
       IN  /\ objs' = IF success
                      THEN [objs EXCEPT ![self[r]].is_authenticated = TRUE]
                      ELSE objs
           /\ response' = [response EXCEPT ![r] =
                  jsonify([authenticated |-> success,
                           message |-> IF success THEN "authenticated"
                                       ELSE "authentication failed"])]
           /\ last_login' = success
    /\ outbound' = [outbound EXCEPT ![r] = complete(@, "login POST", self[r])]
    /\ pc' = [pc EXCEPT ![r] = "done"]
    /\ UNCHANGED <<pureVars, environ, parser, endpoint, self, created, vin_code,
                   article, data, vin_info>>

\* the response is sent and the thread takes no further part
Respond(r) ==
    /\ pc[r] = "done"
    /\ pc' = [pc EXCEPT ![r] = "idle"]
    /\ endpoint' = [endpoint EXCEPT ![r] = "none"]
    /\ self' = [self EXCEPT ![r] = 0]
    /\ created' = [created EXCEPT ![r] = 0]
    /\ vin_code' = [vin_code EXCEPT ![r] = <<>>]
    /\ article' = [article EXCEPT ![r] = ""]
    /\ data' = [data EXCEPT ![r] = NoBody]
    /\ vin_info' = [vin_info EXCEPT ![r] = NoDict]
    /\ outbound' = [outbound EXCEPT ![r] = <<>>]
    /\ response' = [response EXCEPT ![r] = NoResponse]
    /\ UNCHANGED <<pureVars, environ, objs, parser, last_login>>

(***************************************************************************)
(* Specifications                                                          *)
(***************************************************************************)
ExtractIdle ==
    /\ soup = <<>>
    /\ parts = <<>>
    /\ details = [article |-> "", offers |-> <<>>]
    /\ partsDone = FALSE
    /\ detailsDone = FALSE

VehicleIdle ==
    /\ results = <<>>
    /\ vehicle_info = <<>>
    /\ vehicleDone = FALSE

\* module import: `parser = EmexVINParser()`, no request yet
ServerStart ==
    /\ objs = <<EmexVINParser_init(JNull, JNull)>>
    /\ parser = 1
    /\ pc = [r \in Requests |-> "idle"]
    /\ endpoint = [r \in Requests |-> "none"]
    /\ self = [r \in Requests |-> 0]
    /\ created = [r \in Requests |-> 0]
    /\ vin_code = [r \in Requests |-> <<>>]
    /\ article = [r \in Requests |-> ""]
    /\ data = [r \in Requests |-> NoBody]
    /\ vin_info = [r \in Requests |-> NoDict]
    /\ outbound = [r \in Requests |-> <<>>]
    /\ response = [r \in Requests |-> NoResponse]
    /\ last_login = FALSE

\* the Flask process serving concurrent requests
Init == ExtractIdle /\ VehicleIdle /\ environ \in Environs /\ ServerStart

Next ==
    \/ \E r \in Requests, vin \in VinInputs : StartDecodeVin(r, vin)
    \/ \E r \in Requests, vin \in VinInputs : StartSearchParts(r, vin)
    \/ \E r \in Requests, reply \in DecodeReplies : DecodeReply(r, reply)
    \/ \E r \in Requests, art \in Articles : StartPartDetails(r, art)
    \/ \E r \in Requests, reply \in PageReplies : PageReply(r, reply)
    \/ \E r \in Requests, body \in AuthBodies : StartAuthenticate(r, body)
    \/ \E r \in Requests : CallAuthenticate(r)
    \/ \E r \in Requests, reply \in LoginReplies : LoginReply(r, reply)
    \/ \E r \in Requests : Respond(r)

Spec == Init /\ [][Next]_vars

\* the same process when requests arrive one after the other
OneAtATime == Cardinality({r \in Requests : pc'[r] # "idle"}) <= 1

NextSeq ==
    \/ \E r \in Requests, vin \in VinInputs : StartDecodeVin(r, vin) /\ OneAtATime
    \/ \E r \in Requests, vin \in VinInputs : StartSearchParts(r, vin) /\ OneAtATime
    \/ \E r \in Requests, reply \in DecodeReplies : DecodeReply(r, reply)
    \/ \E r \in Requests, art \in Articles : StartPartDetails(r, art) /\ OneAtATime
    \/ \E r \in Requests, reply \in PageReplies : PageReply(r, reply)
    \/ \E r \in Requests, body \in AuthBodies : StartAuthenticate(r, body) /\ OneAtATime
    \/ \E r \in Requests : CallAuthenticate(r)
    \/ \E r \in Requests, reply \in LoginReplies : LoginReply(r, reply)
    \/ \E r \in Requests : Respond(r)

SpecSeq == Init /\ [][NextSeq]_vars

\* the extraction engine on its own: any page, both modes
InitExtract ==
    /\ soup \in Pages
    /\ parts = <<>>
    /\ details = [article |-> "", offers |-> <<>>]
    /\ partsDone = FALSE
    /\ detailsDone = FALSE
    /\ VehicleIdle
    /\ environ = NoEnviron
    /\ ServerStart

ParsePartsFromHtml ==
    /\ ~partsDone
    /\ parts' = parse_parts_from_html(soup)
    /\ partsDone' = TRUE
    /\ UNCHANGED <<soup, details, detailsDone, vehicleVars, serverVars>>

ParsePartDetails ==
    /\ ~detailsDone
    /\ \E art \in Articles : details' = parse_part_details(soup, art)
    /\ detailsDone' = TRUE
    /\ UNCHANGED <<soup, parts, partsDone, vehicleVars, serverVars>>

NextExtract == ParsePartsFromHtml \/ ParsePartDetails

SpecExtract == InitExtract /\ [][NextExtract]_vars

\* the decode loop on its own: any Results list
InitVehicle ==
    /\ results \in ResultLists
    /\ vehicle_info = <<>>
    /\ vehicleDone = FALSE
    /\ ExtractIdle
    /\ environ = NoEnviron
    /\ ServerStart

BuildVehicleInfo ==
    /\ ~vehicleDone
    /\ vehicle_info' = build_vehicle_info(results)
    /\ vehicleDone' = TRUE
    /\ UNCHANGED <<results, extractVars, serverVars>>

NextVehicle == BuildVehicleInfo

SpecVehicle == InitVehicle /\ [][NextVehicle]_vars

(***************************************************************************)
(* Properties                                                              *)
(***************************************************************************)
\* the selector of the k-th strategy, read off the page being matched
PartStrategy(k, n) ==
    CASE k = 1 -> n.name = "div" /\ "part-item" \in n.class
      [] k = 2 -> n.name = "tr" /\ "search-row" \in n.class
      [] k = 3 -> n.name = "div" /\ n.dtype = "part"

OfferStrategy(k, n) ==
    CASE k = 1 -> n.name = "div" /\ "offer-item" \in n.class
      [] k = 2 -> n.name = "tr" /\ "offer-row" \in n.class

StrategyHits(page, S(_, _), k) == \E i \in 1..Len(page) : S(k, page[i])

\* the nodes of the first strategy with a hit; none when no strategy has one
WinningNodes(page, S(_, _), K) ==
    LET first == {k \in 1..K : /\ StrategyHits(page, S, k)
                               /\ \A j \in 1..(k - 1) : ~StrategyHits(page, S, j)}
    IN  IF first = {} THEN <<>>
        ELSE SelectSeq(page, LAMBDA n : S(CHOOSE k \in first : TRUE, n))

\* C1: the records of both modes are those of the nodes of the first strategy
\* that matches a node, in document order; a later strategy's nodes
\* contribute only when every earlier strategy matched nothing.
C1_OrderedShortCircuit ==
    /\ partsDone => parts = parts_loop(WinningNodes(soup, PartStrategy, 3), <<>>)
    /\ detailsDone =>
           details.offers = offers_loop(WinningNodes(soup, OfferStrategy, 2), <<>>)

\* a page with a strategy-1 listing and a decoy that only strategy 3 matches,
\* both with fields, and an offer row that only the second offer strategy matches
C1_Witness ==
    /\ partsDone /\ detailsDone
    /\ \E i, j \in 1..Len(soup) :
          /\ PartStrategy(1, soup[i]) /\ ~extract_part_info(soup[i]).isNone
          /\ PartStrategy(3, soup[j]) /\ ~PartStrategy(1, soup[j])
          /\ ~extract_part_info(soup[j]).isNone
    /\ Len(parts) = 1
    /\ ~StrategyHits(soup, OfferStrategy, 1) /\ StrategyHits(soup, OfferStrategy, 2)
    /\ Len(details.offers) = 1

\* C2: every listing and every offer returned has at least one field whose
\* value is a non-empty string.
C2_NoEmptyRecord ==
    /\ partsDone =>
           \A i \in 1..Len(parts) : \E f \in DOMAIN parts[i] : parts[i][f] # <<>>
    /\ detailsDone =>
           \A i \in 1..Len(details.offers) :
               \E f \in OfferFields : /\ ~details.offers[i][f].null
                                      /\ details.offers[i][f].text # <<>>

\* C3: in both modes a node whose extraction raises is the only one left out:
\* the output is what the other candidate nodes, before and after it, yield.
C3_PerNodeIsolation ==
    /\ partsDone =>
           parts = parts_loop(SelectSeq(part_items(soup), LAMBDA n : ~n.malformed), <<>>)
    /\ detailsDone =>
           details.offers =
               offers_loop(SelectSeq(offer_items(soup), LAMBDA n : ~n.malformed), <<>>)

NonEmptyValue(item) == item.Value # JNull /\ item.Value # JStr("")

\* C9 as stated: the mapping holds Variable -> Value for exactly the pairs
\* whose Value is non-empty.
C9_EveryNonEmptyPair ==
    vehicleDone =>
        /\ \A i \in 1..Len(results) :
               NonEmptyValue(results[i]) =>
                   /\ results[i].Variable \in DOMAIN vehicle_info
                   /\ vehicle_info[results[i].Variable] = results[i].Value.s
        /\ \A k \in DOMAIN vehicle_info :
               \E i \in 1..Len(results) :
                   results[i].Variable = k /\ NonEmptyValue(results[i])

LastNonEmpty(k) ==
    CHOOSE i \in 1..Len(results) :
        /\ results[i].Variable = k /\ NonEmptyValue(results[i])
        /\ \A j \in (i + 1)..Len(results) :
               ~(results[j].Variable = k /\ NonEmptyValue(results[j]))

\* C9 as amended: the keys are exactly the Variables of the pairs whose Value
\* is non-empty, and each key maps to the Value of the last such pair.
C9_LastNonEmptyPair ==
    vehicleDone =>
        /\ DOMAIN vehicle_info =
               {results[i].Variable : i \in {j \in 1..Len(results) : NonEmptyValue(results[j])}}
        /\ \A k \in DOMAIN vehicle_info :
               vehicle_info[k] = results[LastNonEmpty(k)].Value.s

\* two non-empty pairs share a Variable, a third pair has an empty Value
C9_Witness ==
    /\ vehicleDone
    /\ \E i, j, e \in 1..Len(results) :
          /\ i < j /\ results[i].Variable = results[j].Variable
          /\ NonEmptyValue(results[i]) /\ NonEmptyValue(results[j])
          /\ results[i].Value # results[j].Value
          /\ vehicle_info[results[j].Variable] = results[j].Value.s
          /\ results[e].Value = JStr("")
          /\ results[e].Variable \notin DOMAIN vehicle_info

\* what decode_vin returned in thread r
DecodeResult(r) == IF endpoint[r] = "decode_vin" THEN response[r].json ELSE vin_info[r]

\* C4: a call of decode_vin with a VIN whose length is not 17 returns the
\* invalid-format error with that VIN and issues no outbound call.
C4_InvalidVinNoCall ==
    \A r \in Requests :
        endpoint[r] \in {"decode_vin", "search_parts"} /\ Len(vin_code[r]) # 17 =>
            /\ DecodeResult(r) = [error |-> "invalid VIN format", vin |-> vin_code[r]]
            /\ outbound[r] = <<>>

C4_Witness ==
    \E r, q \in Requests :
        /\ endpoint[r] = "decode_vin" /\ vin_code[r] = <<>> /\ pc[r] = "done"
        /\ response[r].json.error = "invalid VIN format"
        /\ endpoint[q] = "decode_vin" /\ Len(vin_code[q]) = 18 /\ pc[q] = "done"

IssuedCalls(r, call) ==
    {i \in 1..Len(outbound[r]) :
        outbound[r][i].ev = "issued" /\ outbound[r][i].call = call}

\* C5: when the decode step of a search fails, the search returns the
\* decoder's error result and issues no page GET; for a VIN of the wrong
\* length it issues no call at all.
C5_DecodeErrorPropagates ==
    \A r \in Requests :
        endpoint[r] = "search_parts" /\ "error" \in DOMAIN vin_info[r] =>
            /\ pc[r] = "done"
            /\ response[r] = [status |-> 200, json |-> vin_info[r]]
            /\ vin_info[r].vin = vin_code[r]
            /\ IssuedCalls(r, "page GET") = {}
            /\ Len(vin_code[r]) # 17 => outbound[r] = <<>>

C5_Witness ==
    \E r, q \in Requests :
        /\ endpoint[r] = "search_parts" /\ pc[r] = "done"
        /\ response[r].json = [error |-> "decode failed", vin |-> vin_code[r]]
        /\ Len(outbound[r]) = 2
        /\ endpoint[q] = "search_parts" /\ pc[q] = "done"
        /\ vin_code[q] = <<"S", "H", "O", "R", "T">>
        /\ response[q].json.error = "invalid VIN format"

\* C6: no decode/search/detail request in progress is bound to a parser
\* whose credential change (the authenticate request that constructed it)
\* has not completed.
C6_AtomicSwap ==
    \A r, a \in Requests :
        /\ endpoint[r] \in {"decode_vin", "search_parts", "part_details"}
        /\ pc[r] \in {"decode_wait", "page_wait"}
        /\ endpoint[a] = "authenticate"
        /\ pc[a] \in {"swapped", "login_wait"}
        => self[r] # created[a]

MissingCredentials(body) ==
    body.username \in {JNull, JStr("")} \/ body.password \in {JNull, JStr("")}

C8_NoRetries ==
    \A r \in Requests :
        /\ \A call \in {"decode GET", "page GET", "login POST"} :
               Cardinality(IssuedCalls(r, call)) <= 1
        /\ endpoint[r] = "search_parts" =>
               \A i \in IssuedCalls(r, "page GET") :
                   \E j \in 1..(i - 1) :
                       outbound[r][j] = [ev |-> "completed", call |-> "decode GET", via |-> 0]

\* a search whose page GET failed, a decode whose GET raised and a login
\* that was refused have all ended with one call each
C8_Witness ==
    \E r, q \in Requests :
        /\ endpoint[r] = "search_parts" /\ pc[r] = "done"
        /\ Len(outbound[r]) = 4
        /\ "error" \in DOMAIN response[r].json
        /\ endpoint[q] = "authenticate" /\ pc[q] = "done"
        /\ Len(outbound[q]) = 2
        /\ ~response[q].json.authenticated

\* C10: with requests served one after the other, whenever no authenticate
\* request is under way the global parser's flag is false if no credential
\* change has happened and otherwise tells whether the login POST of the
\* latest one returned 200.
C10_FlagFollowsLatestLogin ==
    (\A r \in Requests : endpoint[r] = "authenticate" => pc[r] = "done") =>
        objs[parser].is_authenticated = last_login

\* a failed credential change has replaced an authenticated parser, in a
\* process started with credentials in the environment
C10_Witness ==
    /\ \A r \in Requests : pc[r] = "idle"
    /\ truthy(objs[1].username) /\ ~objs[1].is_authenticated
    /\ Len(objs) = 3 /\ parser = 3
    /\ objs[2].is_authenticated /\ ~objs[3].is_authenticated

====
